---- MODULE Spec2Model ----
(***************************************************************************)
(* A model of the Product service: service/models.py (the Product entity,  *)
(* its validation, serialization, persistence and query functions) and     *)
(* service/service.py (the HTTP handlers that call them).                  *)
(***************************************************************************)
EXTENDS Integers, Sequences, FiniteSets, TLC

VARIABLES
    db,        \* the committed table: a function from the stored ids to rows
    sess,      \* the session's unflushed changes to persistent objects: id -> row
    refused,   \* history: the last update request refused for its body, and the
               \* row that was stored under its id then
    obj,       \* an in-memory Product that is not attached to the session
    last       \* the last call: its name, arguments and outcome

vars == <<db, sess, refused, obj, last>>

----------------------------------------------------------------------------
(* Bounds of the model.                                                    *)

\* longest price string tried in a request body
MaxLen == 3
\* largest price, and largest price-range bound, in the query model
MaxPrice == 2
\* most rows in a store of the query model
MaxProducts == 2
\* ids 1..MaxId are the ones the store can hand out in the persistence model
MaxId == 2

----------------------------------------------------------------------------
(* Python / JSON values.  t is the type, s the characters of a string,     *)
(* n the number of an int or a float.                                      *)

None == [t |-> "NoneType", s |-> <<>>, n |-> 0]
PyStr(chars) == [t |-> "str", s |-> chars, n |-> 0]
PyInt(k) == [t |-> "int", s |-> <<>>, n |-> k]
PyFloat(k) == [t |-> "float", s |-> <<>>, n |-> k]
PyBool(k) == [t |-> "bool", s |-> <<>>, n |-> k]
PyList == [t |-> "list", s |-> <<>>, n |-> 0]
\* a JSON object: items is a function from the keys present to their values
Dict(items) == [t |-> "dict", items |-> items]

\* Python truthiness, as `if not self.id` and `if category` use it
Truthy(v) ==
    CASE v.t = "NoneType" -> FALSE
      [] v.t = "str" -> Len(v.s) > 0
      [] v.t \in {"int", "float", "bool"} -> v.n # 0
      [] OTHER -> FALSE

\* all sequences over S of length 0..k
RECURSIVE SeqsUpTo(_, _)
SeqsUpTo(S, k) ==
    IF k = 0 THEN {<<>>}
    ELSE LET shorter == SeqsUpTo(S, k - 1)
         IN  shorter \cup {Append(w, c) : w \in {u \in shorter : Len(u) = k - 1}, c \in S}

----------------------------------------------------------------------------
(* The price pattern of deserialize, used with pattern.match: an optional  *)
(* plus sign, then either digits with an optional fraction (a dot and any  *)
(* number of digits), or an optional plus sign, a dot and digits.          *)

Digits == {"0", "1", "2", "3", "4", "5", "6", "7", "8", "9"}

AllDigits(w) == \A i \in 1..Len(w) : w[i] \in Digits

\* w without its first k characters
Drop(w, k) == SubSeq(w, k + 1, Len(w))

\* one or more digits, then optionally a dot and any number of digits
DigitsThenFraction(w) ==
    \E k \in 1..Len(w) :
        /\ AllDigits(SubSeq(w, 1, k))
        /\ \/ k = Len(w)
           \/ w[k + 1] = "." /\ AllDigits(Drop(w, k + 1))

\* a dot, then one or more digits
DotThenDigits(w) ==
    /\ Len(w) >= 2
    /\ w[1] = "."
    /\ AllDigits(Drop(w, 1))

\* [+]? consumes one leading plus sign or nothing
AfterOptionalPlus(w) ==
    {w} \cup (IF Len(w) > 0 /\ w[1] = "+" THEN {Drop(w, 1)} ELSE {})

\* the pattern between its anchors, against all of w
patternBody(w) ==
    \E r \in AfterOptionalPlus(w) :
        \/ DigitsThenFraction(r)
        \/ \E q \in AfterOptionalPlus(r) : DotThenDigits(q)

\* pattern.match(w): anchored at the start; $ matches at the end of the
\* string and also just before a newline that ends the string
pattern_match(w) ==
    \/ patternBody(w)
    \/ Len(w) > 0 /\ w[Len(w)] = "\n" /\ patternBody(SubSeq(w, 1, Len(w) - 1))

----------------------------------------------------------------------------
(* The Product entity: validation and serialization.                       *)

\* Product(): a new object, no column set
Product == [id |-> None, name |-> None, description |-> None,
            category |-> None, price |-> None]

\* an evaluation that may raise: the exception's class and argument, or the value
Value(v) == [raised |-> "none", arg |-> "", v |-> v]
Raise(class, arg) == [raised |-> class, arg |-> arg, v |-> None]

\* data[key]
getitem(data, key) ==
    IF data.t = "dict"
    THEN IF key \in DOMAIN data.items
         THEN Value(data.items[key])
         ELSE Raise("KeyError", key)
    ELSE Raise("TypeError", "")

\* the condition of the price check, given the value of data["price"];
\* pattern.match raises TypeError for an argument that is not a string
price_check(v) ==
    IF v = PyStr(<<>>) THEN Value(PyBool(0))
    ELSE IF v.t = "float" THEN Value(PyBool(0))
    ELSE IF v.t # "str" THEN Raise("TypeError", "")
    ELSE Value(PyBool(IF pattern_match(v.s) THEN 0 ELSE 1))

\* self.<key> = data[<key>] for the keys in turn; the first one that raises
\* ends it, with the earlier assignments made
RECURSIVE assign_fields(_, _, _)
assign_fields(self, data, keys) ==
    IF keys = <<>> THEN [self |-> self, raised |-> "none", arg |-> ""]
    ELSE LET g == getitem(data, Head(keys))
         IN  IF g.raised # "none"
             THEN [self |-> self, raised |-> g.raised, arg |-> g.arg]
             ELSE assign_fields([self EXCEPT ![Head(keys)] = g.v], data, Tail(keys))

\* mutant: description is read before name
FieldOrder_description_first == <<"description", "name", "category", "price">>

\* the order in which deserialize assigns the columns
FieldOrder == <<"name", "description", "category", "price">>

\* the body of the try block of deserialize
deserialize_try(self, data) ==
    LET g == getitem(data, "price")
        c == price_check(g.v)
    IN  IF g.raised # "none" THEN [self |-> self, raised |-> g.raised, arg |-> g.arg]
        ELSE IF c.raised # "none" THEN [self |-> self, raised |-> c.raised, arg |-> c.arg]
        ELSE IF Truthy(c.v)
             THEN [self |-> self, raised |-> "DataValidationError",
                   arg |-> "Invalid Price Input"]
        ELSE assign_fields(self, data, FieldOrder)

\* mutant: deserialize without its TypeError handler
deserialize_without_TypeError_handler(self, data) ==
    LET r == deserialize_try(self, data)
    IN  IF r.raised = "KeyError"
        THEN [self |-> r.self, raised |-> "DataValidationError",
              arg |-> "Invalid product : missing " \o r.arg]
        ELSE r

\* deserialize(self, data): the object as the call leaves it, and the exception
\* that leaves the call, if any
deserialize(self, data) ==
    LET r == deserialize_try(self, data)
    IN  CASE r.raised = "KeyError" ->
                [self |-> r.self, raised |-> "DataValidationError",
                 arg |-> "Invalid product : missing " \o r.arg]
          [] r.raised = "TypeError" ->
                [self |-> r.self, raised |-> "DataValidationError",
                 arg |-> "Invalid product: body of request contained bad or no data"]
          [] OTHER -> r

\* mutant: serialize leaves the price out
serialize_without_price(self) ==
    Dict([k \in {"id", "name", "description", "category"} |-> self[k]])

\* serialize(self)
serialize(self) ==
    Dict([k \in {"id", "name", "description", "category", "price"} |-> self[k]])

----------------------------------------------------------------------------
(* Calls of deserialize and serialize on one object, over the request      *)
(* bodies below.                                                           *)

RequiredKeys == {"name", "description", "category", "price"}

\* characters of the price strings tried: a sign, a dot, a digit, a letter
\* and a newline
PriceChars == {"+", ".", "5", "x", "\n"}

PriceStrings == {PyStr(w) : w \in SeqsUpTo(PriceChars, MaxLen)}

PriceValues ==
    PriceStrings \cup {PyFloat(0), PyFloat(1), PyInt(0), PyInt(1), None, PyBool(1), PyList}

NameValues == {PyStr(<<"W">>), PyStr(<<"G">>)}
DescriptionValues == {PyStr(<<"d">>)}
CategoryValues == {PyStr(<<"c">>)}

\* JSON objects holding any subset of the required keys
DictBodies ==
    {Dict([k \in ks |-> CASE k = "name" -> n
                          [] k = "description" -> d
                          [] k = "category" -> c
                          [] k = "price" -> p]) :
        ks \in SUBSET RequiredKeys, n \in NameValues, d \in DescriptionValues,
        c \in CategoryValues, p \in PriceValues}

\* what request.get_json() gives for a body that is no JSON object
NonDictBodies == {None, PyList, PyStr(<<"x">>), PyInt(1), PyFloat(1), PyBool(1)}

Bodies == DictBodies \cup NonDictBodies

\* the record of a call
Call(op, data, r, before) ==
    [op |-> op, data |-> data, raised |-> r.raised, arg |-> r.arg, before |-> before]

NoCall == [op |-> "new", data |-> None, raised |-> "none", arg |-> "", before |-> Product]

NoRows == [i \in {} |-> Product]

NoRefusal == [id |-> 0, row |-> Product]

\* a new Product, built with or without an id keyword
InitDeserialize ==
    /\ db = NoRows
    /\ sess = NoRows
    /\ refused = NoRefusal
    /\ obj \in {[Product EXCEPT !.id = i] : i \in {None, PyInt(0), PyInt(1)}}
    /\ last = NoCall

\* obj.deserialize(data)
DeserializeCall(data) ==
    /\ last.op = "new"
    /\ LET r == deserialize(obj, data)
       IN  /\ obj' = r.self
           /\ last' = Call("deserialize", data, r, obj)
    /\ UNCHANGED <<db, sess, refused>>

\* after a successful deserialize: target.deserialize(obj.serialize()), the
\* target being obj itself or a new Product
RoundTrip(fresh) ==
    /\ last.op = "deserialize"
    /\ last.raised = "none"
    /\ LET data == serialize(obj)
           r == deserialize(IF fresh THEN Product ELSE obj, data)
       IN  /\ obj' = r.self
           /\ last' = Call(IF fresh THEN "roundtrip_fresh" ELSE "roundtrip_same",
                           data, r, obj)
    /\ UNCHANGED <<db, sess, refused>>

NextDeserialize ==
    \/ \E data \in Bodies : DeserializeCall(data)
    \/ \E fresh \in BOOLEAN : RoundTrip(fresh)

SpecDeserialize == InitDeserialize /\ [][NextDeserialize]_vars

\* a price the price check lets through: a float, the empty string or a
\* string the pattern matches
PriceAccepted(p) ==
    \/ p.t = "float"
    \/ p = PyStr(<<>>)
    \/ p.t = "str" /\ pattern_match(p.s)

DeserializedDict == last.op = "deserialize" /\ last.data.t = "dict"

\* the first key of keys that is not in present
RECURSIVE FirstAbsent(_, _)
FirstAbsent(keys, present) ==
    IF Head(keys) \notin present THEN Head(keys) ELSE FirstAbsent(Tail(keys), present)

\* C3 (as claimed): with all four keys present, deserialize succeeds and
\* stores the price unchanged when the price is an integer, a float, a string
\* matching the pattern or the empty string, and raises DataValidationError
\* "Invalid Price Input" for every other price.
C3_PriceAcceptedOrInvalidPriceInput ==
    (DeserializedDict /\ DOMAIN last.data.items = RequiredKeys) =>
        LET p == last.data.items["price"]
        IN  IF p.t \in {"int", "float"} \/ PriceAccepted(p)
            THEN last.raised = "none" /\ obj.price = p
            ELSE /\ last.raised = "DataValidationError"
                 /\ last.arg = "Invalid Price Input"

\* C4 (as claimed): with a required key absent and the price, if present,
\* accepted, deserialize raises DataValidationError "Invalid product : missing "
\* followed by the first absent key in the order name, description, category,
\* price.
C4_FirstAbsentInReadOrder ==
    (/\ DeserializedDict
     /\ DOMAIN last.data.items # RequiredKeys
     /\ "price" \in DOMAIN last.data.items => PriceAccepted(last.data.items["price"]))
    => /\ last.raised = "DataValidationError"
       /\ last.arg = "Invalid product : missing "
                        \o FirstAbsent(<<"name", "description", "category", "price">>,
                                       DOMAIN last.data.items)

\* C4 (amended): with a required key absent and the price, if present,
\* accepted by the price check, deserialize raises DataValidationError
\* "Invalid product : missing " followed by price when price is absent, and
\* otherwise by the first absent key in the order name, description, category.
C4_MissingPriceNamedFirst ==
    (/\ DeserializedDict
     /\ DOMAIN last.data.items # RequiredKeys
     /\ "price" \in DOMAIN last.data.items => PriceAccepted(last.data.items["price"]))
    => /\ last.raised = "DataValidationError"
       /\ last.arg = "Invalid product : missing "
                        \o FirstAbsent(<<"price", "name", "description", "category">>,
                                       DOMAIN last.data.items)

\* several keys absent, price among them, and price is the one named
C4_Witness ==
    /\ DeserializedDict
    /\ DOMAIN last.data.items = {"category"}
    /\ last.arg = "Invalid product : missing price"

\* C5: a body that is no JSON object makes deserialize raise
\* DataValidationError "Invalid product: body of request contained bad or no
\* data", and whatever the body, no exception other than DataValidationError
\* leaves deserialize.
C5_OnlyDataValidationError ==
    last.op = "deserialize" =>
        /\ last.raised \in {"none", "DataValidationError"}
        /\ last.data.t # "dict" =>
              /\ last.raised = "DataValidationError"
              /\ last.arg = "Invalid product: body of request contained bad or no data"

\* a list was given as the body and was refused
C5_Witness ==
    /\ last.op = "deserialize"
    /\ last.data = PyList
    /\ last.raised = "DataValidationError"

\* C6: after a successful deserialize, deserializing the object's serialize()
\* into the object or into a new Product succeeds and gives the same name,
\* description, category and price; deserialize leaves the target's id as it
\* was, whatever id the map holds.
C6_RoundTrip ==
    /\ last.op \in {"roundtrip_fresh", "roundtrip_same"} =>
          /\ last.data = serialize(last.before)
          /\ last.raised = "none"
          /\ \A k \in RequiredKeys : obj[k] = last.before[k]
          /\ obj.id = IF last.op = "roundtrip_fresh" THEN None ELSE last.before.id
    /\ last.op = "deserialize" => obj.id = last.before.id

\* a product with an id and a price string was serialized and read back into
\* a new Product
C6_Witness ==
    /\ last.op = "roundtrip_fresh"
    /\ last.before.id = PyInt(1)
    /\ obj.price = PyStr(<<"+", ".", "5">>)
    /\ obj.name = PyStr(<<"W">>)

----------------------------------------------------------------------------
(* The query functions of Product.  A query reads the table as the session *)
(* shows it: the committed rows, with the session's unflushed changes      *)
(* flushed first.                                                          *)

Rows == [i \in DOMAIN db |-> IF i \in DOMAIN sess THEN sess[i] ELSE db[i]]

UpperCase == <<"A", "B", "C", "D", "E", "F", "G", "H", "I", "J", "K", "L", "M",
               "N", "O", "P", "Q", "R", "S", "T", "U", "V", "W", "X", "Y", "Z">>
LowerCase == <<"a", "b", "c", "d", "e", "f", "g", "h", "i", "j", "k", "l", "m",
               "n", "o", "p", "q", "r", "s", "t", "u", "v", "w", "x", "y", "z">>

\* func.lower on one character and on a string
lower_char(c) ==
    IF \E i \in 1..Len(UpperCase) : UpperCase[i] = c
    THEN LowerCase[CHOOSE i \in 1..Len(UpperCase) : UpperCase[i] = c]
    ELSE c
lower(w) == [i \in 1..Len(w) |-> lower_char(w[i])]

\* SQL: w LIKE pat, where % stands for any run of characters and _ for any
\* one character
RECURSIVE like(_, _)
like(w, pat) ==
    IF pat = <<>> THEN w = <<>>
    ELSE IF Head(pat) = "%"
         THEN like(w, Tail(pat)) \/ (w # <<>> /\ like(Tail(w), pat))
    ELSE IF Head(pat) = "_"
         THEN w # <<>> /\ like(Tail(w), Tail(pat))
    ELSE w # <<>> /\ Head(w) = Head(pat) /\ like(Tail(w), Tail(pat))

\* column.contains(other): column LIKE '%' || other || '%'; other is an SQL
\* expression here, so its % and _ are not escaped.  NULL matches nothing.
contains(column, other) ==
    /\ column.t = "str"
    /\ other.t = "str"
    /\ like(column.s, <<"%">> \o other.s \o <<"%">>)

\* func.lower(cls.name).contains(func.lower(name))
name_criterion(row, name) ==
    contains(PyStr(lower(row.name.s)), PyStr(lower(name.s))) /\ name.t = "str"

\* func.lower(cls.category) == func.lower(category)
category_criterion(row, category) ==
    /\ row.category.t = "str"
    /\ category.t = "str"
    /\ lower(row.category.s) = lower(category.s)

\* func.lower(cls.description).contains(func.lower(description))
description_criterion(row, description) ==
    contains(PyStr(lower(row.description.s)), PyStr(lower(description.s)))
    /\ description.t = "str"

\* mutant: the upper bound of the range is exclusive
price_criterion_exclusive_maximum(row, minimum, maximum) ==
    /\ row.price.t \in {"float", "int"}
    /\ minimum.n <= row.price.n
    /\ row.price.n < maximum.n

\* cls.price.between(minimum, maximum): price BETWEEN minimum AND maximum
price_criterion(row, minimum, maximum) ==
    /\ row.price.t \in {"float", "int"}
    /\ minimum.n <= row.price.n
    /\ row.price.n <= maximum.n

\* cls.query.filter(...): the rows that meet the criteria, in the order of
\* their ids; kept is the set of the ids of the rows that meet them
RECURSIVE query_filter(_)
query_filter(kept) ==
    IF kept = {} THEN <<>>
    ELSE LET i == CHOOSE j \in kept : \A k \in kept : j <= k
         IN  <<Rows[i]>> \o query_filter(kept \ {i})

\* Product.all()
all == query_filter(DOMAIN Rows)

find_by_name(name) ==
    query_filter({i \in DOMAIN Rows : name_criterion(Rows[i], name)})

find_by_category(category) ==
    query_filter({i \in DOMAIN Rows : category_criterion(Rows[i], category)})

find_by_description(description) ==
    query_filter({i \in DOMAIN Rows : description_criterion(Rows[i], description)})

query_by_price(minimum, maximum) ==
    query_filter({i \in DOMAIN Rows : price_criterion(Rows[i], minimum, maximum)})

find_by_name_category(name, category) ==
    query_filter({i \in DOMAIN Rows :
                         /\ name_criterion(Rows[i], name)
                         /\ category_criterion(Rows[i], category)})

find_by_name_description(name, description) ==
    query_filter({i \in DOMAIN Rows :
                         /\ name_criterion(Rows[i], name)
                         /\ description_criterion(Rows[i], description)})

find_by_name_price(name, minimum, maximum) ==
    query_filter({i \in DOMAIN Rows :
                         /\ name_criterion(Rows[i], name)
                         /\ price_criterion(Rows[i], minimum, maximum)})

find_by_category_description(category, description) ==
    query_filter({i \in DOMAIN Rows :
                         /\ category_criterion(Rows[i], category)
                         /\ description_criterion(Rows[i], description)})

find_by_category_price(category, minimum, maximum) ==
    query_filter({i \in DOMAIN Rows :
                         /\ category_criterion(Rows[i], category)
                         /\ price_criterion(Rows[i], minimum, maximum)})

find_by_description_price(description, minimum, maximum) ==
    query_filter({i \in DOMAIN Rows :
                         /\ description_criterion(Rows[i], description)
                         /\ price_criterion(Rows[i], minimum, maximum)})

find_by_name_category_description(name, category, description) ==
    query_filter({i \in DOMAIN Rows :
                         /\ name_criterion(Rows[i], name)
                         /\ category_criterion(Rows[i], category)
                         /\ description_criterion(Rows[i], description)})

find_by_name_category_price(name, category, minimum, maximum) ==
    query_filter({i \in DOMAIN Rows :
                         /\ name_criterion(Rows[i], name)
                         /\ category_criterion(Rows[i], category)
                         /\ price_criterion(Rows[i], minimum, maximum)})

find_by_name_description_price(name, description, minimum, maximum) ==
    query_filter({i \in DOMAIN Rows :
                         /\ name_criterion(Rows[i], name)
                         /\ description_criterion(Rows[i], description)
                         /\ price_criterion(Rows[i], minimum, maximum)})

find_by_category_description_price(category, description, minimum, maximum) ==
    query_filter({i \in DOMAIN Rows :
                         /\ category_criterion(Rows[i], category)
                         /\ description_criterion(Rows[i], description)
                         /\ price_criterion(Rows[i], minimum, maximum)})

find_by_name_category_description_price(name, category, description, minimum, maximum) ==
    query_filter({i \in DOMAIN Rows :
                         /\ name_criterion(Rows[i], name)
                         /\ category_criterion(Rows[i], category)
                         /\ description_criterion(Rows[i], description)
                         /\ price_criterion(Rows[i], minimum, maximum)})

\* [product.serialize() for product in products]
serialize_each(products) == [i \in 1..Len(products) |-> serialize(products[i])]

\* list_products, given request.args.get of category, name and description
\* (None for a parameter that is not in the query string): the JSON list of
\* the response
list_products(category, name, description) ==
    LET products ==
            IF Truthy(category) THEN find_by_category(category)
            ELSE IF Truthy(name) THEN find_by_name(name)
            ELSE IF Truthy(description) THEN find_by_description(description)
            ELSE all
    IN  serialize_each(products)

----------------------------------------------------------------------------
(* Calls of the query functions and of list_products on a store.           *)

\* the columns of the rows of the stores tried
QNames == {<<"A", "b">>, <<"B">>}
QCategories == {<<"T">>, <<"T", "b">>}
QDescriptions == {<<"X", "y">>, <<"Y">>}
\* the article described as Xy costs 1, the one described as Y costs 2
QPrice(d) == IF d = <<"X", "y">> THEN 1 ELSE 2

QFields ==
    {[name |-> PyStr(n), description |-> PyStr(d), category |-> PyStr(c),
      price |-> PyFloat(QPrice(d))] :
        n \in QNames, d \in QDescriptions, c \in QCategories}

\* the row with id i and the given columns
Row(i, f) ==
    [id |-> PyInt(i), name |-> f.name, description |-> f.description,
     category |-> f.category, price |-> f.price]

\* the arguments tried
NameArgs == {PyStr(<<"a">>), PyStr(<<"_">>)}
CategoryArgs == {PyStr(<<"t">>), PyStr(<<"t", "B">>)}
DescriptionArgs == {PyStr(<<"x">>), PyStr(<<"%">>)}
PriceArgs == {PyFloat(k) : k \in 0..MaxPrice}

\* the parameters tried for list_products; request.args.get(...) gives None
\* for a parameter that is not in the query string
ListNameParams == {None, PyStr(<<"a">>), PyStr(<<"b">>)}
ListCategoryParams == {None, PyStr(<<"t">>), PyStr(<<"t", "B">>)}
ListDescriptionParams == {None, PyStr(<<"x">>), PyStr(<<"y">>)}

QueryArgs(name, category, description, minimum, maximum) ==
    [name |-> name, category |-> category, description |-> description,
     minimum |-> minimum, maximum |-> maximum]

\* a store of up to MaxProducts rows, with the ids 1, 2, ...
InitQuery ==
    /\ \E k \in 0..MaxProducts : \E f \in [1..k -> QFields] :
          db = [i \in 1..k |-> Row(i, f[i])]
    /\ sess = NoRows
    /\ refused = NoRefusal
    /\ obj = Product
    /\ last = NoCall

QueryCall(op, args, result) ==
    /\ last' = [op |-> op, args |-> args, result |-> result]
    /\ UNCHANGED <<db, sess, refused, obj>>

Call_find_by_name ==
    /\ last.op = "new"
    /\ \E name \in NameArgs :
        QueryCall("find_by_name", QueryArgs(name, None, None, None, None),
                  find_by_name(name))

Call_find_by_category ==
    /\ last.op = "new"
    /\ \E category \in CategoryArgs :
        QueryCall("find_by_category", QueryArgs(None, category, None, None, None),
                  find_by_category(category))

Call_find_by_description ==
    /\ last.op = "new"
    /\ \E description \in DescriptionArgs :
        QueryCall("find_by_description", QueryArgs(None, None, description, None, None),
                  find_by_description(description))

Call_query_by_price ==
    /\ last.op = "new"
    /\ \E minimum \in PriceArgs, maximum \in PriceArgs :
        QueryCall("query_by_price", QueryArgs(None, None, None, minimum, maximum),
                  query_by_price(minimum, maximum))

Call_find_by_name_category ==
    /\ last.op = "new"
    /\ \E name \in NameArgs, category \in CategoryArgs :
        QueryCall("find_by_name_category", QueryArgs(name, category, None, None, None),
                  find_by_name_category(name, category))

Call_find_by_name_description ==
    /\ last.op = "new"
    /\ \E name \in NameArgs, description \in DescriptionArgs :
        QueryCall("find_by_name_description", QueryArgs(name, None, description, None, None),
                  find_by_name_description(name, description))

Call_find_by_name_price ==
    /\ last.op = "new"
    /\ \E name \in NameArgs, minimum \in PriceArgs, maximum \in PriceArgs :
        QueryCall("find_by_name_price", QueryArgs(name, None, None, minimum, maximum),
                  find_by_name_price(name, minimum, maximum))

Call_find_by_category_description ==
    /\ last.op = "new"
    /\ \E category \in CategoryArgs, description \in DescriptionArgs :
        QueryCall("find_by_category_description", QueryArgs(None, category, description, None, None),
                  find_by_category_description(category, description))

Call_find_by_category_price ==
    /\ last.op = "new"
    /\ \E category \in CategoryArgs, minimum \in PriceArgs, maximum \in PriceArgs :
        QueryCall("find_by_category_price", QueryArgs(None, category, None, minimum, maximum),
                  find_by_category_price(category, minimum, maximum))

Call_find_by_description_price ==
    /\ last.op = "new"
    /\ \E description \in DescriptionArgs, minimum \in PriceArgs, maximum \in PriceArgs :
        QueryCall("find_by_description_price", QueryArgs(None, None, description, minimum, maximum),
                  find_by_description_price(description, minimum, maximum))

Call_find_by_name_category_description ==
    /\ last.op = "new"
    /\ \E name \in NameArgs, category \in CategoryArgs, description \in DescriptionArgs :
        QueryCall("find_by_name_category_description", QueryArgs(name, category, description, None, None),
                  find_by_name_category_description(name, category, description))

Call_find_by_name_category_price ==
    /\ last.op = "new"
    /\ \E name \in NameArgs, category \in CategoryArgs, minimum \in PriceArgs, maximum \in PriceArgs :
        QueryCall("find_by_name_category_price", QueryArgs(name, category, None, minimum, maximum),
                  find_by_name_category_price(name, category, minimum, maximum))

Call_find_by_name_description_price ==
    /\ last.op = "new"
    /\ \E name \in NameArgs, description \in DescriptionArgs, minimum \in PriceArgs, maximum \in PriceArgs :
        QueryCall("find_by_name_description_price", QueryArgs(name, None, description, minimum, maximum),
                  find_by_name_description_price(name, description, minimum, maximum))

Call_find_by_category_description_price ==
    /\ last.op = "new"
    /\ \E category \in CategoryArgs, description \in DescriptionArgs, minimum \in PriceArgs, maximum \in PriceArgs :
        QueryCall("find_by_category_description_price", QueryArgs(None, category, description, minimum, maximum),
                  find_by_category_description_price(category, description, minimum, maximum))

Call_find_by_name_category_description_price ==
    /\ last.op = "new"
    /\ \E name \in NameArgs, category \in CategoryArgs, description \in DescriptionArgs, minimum \in PriceArgs, maximum \in PriceArgs :
        QueryCall("find_by_name_category_description_price", QueryArgs(name, category, description, minimum, maximum),
                  find_by_name_category_description_price(name, category, description, minimum, maximum))

Call_all ==
    /\ last.op = "new"
    /\ QueryCall("all", QueryArgs(None, None, None, None, None), all)

Call_list_products ==
    /\ last.op = "new"
    /\ \E category \in ListCategoryParams, name \in ListNameParams,
          description \in ListDescriptionParams :
        QueryCall("list_products", QueryArgs(name, category, description, None, None),
                  list_products(category, name, description))

NextQuery ==
    \/ Call_find_by_name
    \/ Call_find_by_category
    \/ Call_find_by_description
    \/ Call_query_by_price
    \/ Call_find_by_name_category
    \/ Call_find_by_name_description
    \/ Call_find_by_name_price
    \/ Call_find_by_category_description
    \/ Call_find_by_category_price
    \/ Call_find_by_description_price
    \/ Call_find_by_name_category_description
    \/ Call_find_by_name_category_price
    \/ Call_find_by_name_description_price
    \/ Call_find_by_category_description_price
    \/ Call_find_by_name_category_description_price
    \/ Call_all
    \/ Call_list_products

SpecQuery == InitQuery /\ [][NextQuery]_vars

\* the elements of a sequence, and whether none occurs twice
Elements(q) == {q[i] : i \in 1..Len(q)}
NoDuplicates(q) == \A i, j \in 1..Len(q) : q[i] = q[j] => i = j

\* sub occurs in w, letter case aside
ContainsIgnoringCase(w, sub) ==
    \E i \in 0..(Len(w) - Len(sub)) :
        SubSeq(lower(w), i + 1, i + Len(sub)) = lower(sub)

EqualIgnoringCase(w, u) == lower(w) = lower(u)

\* C1 (as claimed): list_products returns exactly the stored products that
\* satisfy the predicate of every parameter supplied (name: case-insensitive
\* substring, category: case-insensitive equality, description:
\* case-insensitive substring), each once; no supplied parameter is ignored,
\* and without parameters every stored product is returned.
C1_ListAppliesEverySuppliedParameter ==
    last.op = "list_products" =>
        LET a == last.args
            wanted == {i \in DOMAIN Rows :
                        /\ a.name # None => ContainsIgnoringCase(Rows[i].name.s, a.name.s)
                        /\ a.category # None =>
                              EqualIgnoringCase(Rows[i].category.s, a.category.s)
                        /\ a.description # None =>
                              ContainsIgnoringCase(Rows[i].description.s, a.description.s)}
        IN  /\ Elements(last.result) = {serialize(Rows[i]) : i \in wanted}
            /\ Len(last.result) = Cardinality(wanted)

QueryOps ==
    {"find_by_name", "find_by_category", "find_by_description", "query_by_price",
     "find_by_name_category", "find_by_name_description", "find_by_name_price",
     "find_by_category_description", "find_by_category_price",
     "find_by_description_price", "find_by_name_category_description",
     "find_by_name_category_price", "find_by_name_description_price",
     "find_by_category_description_price", "find_by_name_category_description_price"}

\* C2: each of the 15 query functions returns, each once, exactly the stored
\* products that are in the result of the single-dimension query of every
\* string dimension it names and, when it names the price, whose price p has
\* minimum <= p <= maximum; so a price equal to minimum or to maximum is in
\* the result, and the result is empty when minimum > maximum.
C2_QueriesIntersectTheirDimensions ==
    last.op \in QueryOps =>
        LET a == last.args
            wanted == {r \in Elements(all) :
                        /\ a.name # None => r \in Elements(find_by_name(a.name))
                        /\ a.category # None => r \in Elements(find_by_category(a.category))
                        /\ a.description # None =>
                              r \in Elements(find_by_description(a.description))
                        /\ a.minimum # None =>
                              a.minimum.n <= r.price.n /\ r.price.n <= a.maximum.n}
        IN  /\ Elements(last.result) = wanted
            /\ NoDuplicates(last.result)
            /\ (a.minimum # None /\ a.minimum.n > a.maximum.n) => last.result = <<>>

\* of two stored products whose names match, the one priced exactly at the
\* maximum of the range is returned and the dearer one is not
C2_Witness ==
    /\ last.op = "find_by_name_price"
    /\ Len(find_by_name(last.args.name)) = 2
    /\ Len(last.result) = 1
    /\ last.args.minimum.n < last.args.maximum.n
    /\ last.result[1].price.n = last.args.maximum.n

----------------------------------------------------------------------------
(* Persistence.  init_db pushes one application context for good, so the   *)
(* requests share db.session: what one request leaves unflushed in it is   *)
(* still there for the next.  sess holds the persistent objects whose      *)
(* attributes differ from their rows, keyed by the id they were loaded by. *)

Store == [db |-> db, sess |-> sess]

\* the rows after the session's changes are flushed
flush(st) ==
    [i \in DOMAIN st.db |-> IF i \in DOMAIN st.sess THEN st.sess[i] ELSE st.db[i]]

\* setting attributes of the persistent object loaded by id i
modify(st, i, row) ==
    [db |-> st.db,
     sess |-> [k \in (DOMAIN st.sess \cup {i}) \ (IF row = st.db[i] THEN {i} ELSE {}) |->
                 IF k = i THEN row ELSE st.sess[k]]]

\* db.session.rollback()
session_rollback(st) == [db |-> st.db, sess |-> NoRows]

\* db.session.commit() that succeeds, with the pending insert and delete, if
\* any: added is a function from the new id to the row, deleted a set of ids
session_commit(st, added, deleted) ==
    LET rows == flush(st)
    IN  [db |-> [i \in (DOMAIN rows \ deleted) \cup DOMAIN added |->
                   IF i \in DOMAIN added THEN added[i] ELSE rows[i]],
         sess |-> NoRows]

\* Product.find(product_id): the object of the session, or None
find(st, product_id) ==
    IF product_id \in DOMAIN st.db THEN flush(st)[product_id] ELSE None

\* mutant: create keeps the id the caller gave
create_keeping_id(self, st, commit_ok, store_id) ==
    LET id == IF self.id.t = "int" /\ self.id.n \notin DOMAIN st.db
              THEN self.id.n ELSE store_id
        row == [self EXCEPT !.id = PyInt(id)]
    IN  IF commit_ok
        THEN [self |-> row, st |-> session_commit(st, [i \in {id} |-> row], {}),
              raised |-> "none", arg |-> ""]
        ELSE [self |-> self, st |-> session_rollback(st), raised |-> "none", arg |-> ""]

\* self.create(); commit_ok says whether db.session.commit() succeeds or
\* raises InvalidRequestError, store_id is the id the store gives the new row
create(self, st, commit_ok, store_id) ==
    LET cleared == [self EXCEPT !.id = None]
        row == [cleared EXCEPT !.id = PyInt(store_id)]
    IN  IF commit_ok
        THEN [self |-> row, st |-> session_commit(st, [i \in {store_id} |-> row], {}),
              raised |-> "none", arg |-> ""]
        ELSE [self |-> cleared, st |-> session_rollback(st), raised |-> "none", arg |-> ""]

\* mutant: update without the test of the id
update_without_id_test(self, st, commit_ok) ==
    IF commit_ok
    THEN [self |-> self, st |-> session_commit(st, NoRows, {}), raised |-> "none", arg |-> ""]
    ELSE [self |-> self, st |-> session_rollback(st), raised |-> "none", arg |-> ""]

\* self.update()
update(self, st, commit_ok) ==
    IF ~Truthy(self.id)
    THEN [self |-> self, st |-> st, raised |-> "DataValidationError",
          arg |-> "Update called with empty ID field"]
    ELSE IF commit_ok
    THEN [self |-> self, st |-> session_commit(st, NoRows, {}), raised |-> "none", arg |-> ""]
    ELSE [self |-> self, st |-> session_rollback(st), raised |-> "none", arg |-> ""]

\* mutant: a failed commit is not rolled back and its delete goes through
delete_without_rollback(self, st, commit_ok) ==
    [self |-> self, st |-> session_commit(st, NoRows, {self.id.n}),
     raised |-> "none", arg |-> ""]

\* self.delete(), for a persistent object
delete(self, st, commit_ok) ==
    IF commit_ok
    THEN [self |-> self, st |-> session_commit(st, NoRows, {self.id.n}),
          raised |-> "none", arg |-> ""]
    ELSE [self |-> self, st |-> session_rollback(st), raised |-> "none", arg |-> ""]

----------------------------------------------------------------------------
(* The handlers of service.py.  Each gives the store as it leaves it and   *)
(* what it answers.                                                        *)

\* what a handler did: the status of the response, the exception that left
\* the Product method it called last, whether db.session.commit() ran and
\* how it ended, and the id the store gave a new row (0 if none)
Answer(st, status, raised, arg, commit, store_id, result) ==
    [st |-> st, status |-> status, raised |-> raised, arg |-> arg,
     commit |-> commit, store_id |-> store_id, result |-> result]

Committed(commit_ok) == IF commit_ok THEN "ok" ELSE "InvalidRequestError"

\* create_products; DataValidationError is answered with 400 by the error
\* handler, and url_for cannot build the location of a product without id
create_products(st, data, commit_ok, store_id) ==
    LET r == deserialize(Product, data)
        c == create(r.self, st, commit_ok, store_id)
    IN  IF r.raised # "none"
        THEN Answer(st, 400, r.raised, r.arg, "none", 0, None)
        ELSE Answer(c.st, IF commit_ok THEN 201 ELSE 500, c.raised, c.arg,
                    Committed(commit_ok), IF commit_ok THEN store_id ELSE 0,
                    serialize(c.self))

\* update_products
update_products(st, product_id, data, commit_ok) ==
    LET product == find(st, product_id)
        r == deserialize(product, data)
        st1 == modify(st, product_id, r.self)
        with_id == [r.self EXCEPT !.id = PyInt(product_id)]
        st2 == modify(st1, product_id, with_id)
        u == update(with_id, st2, commit_ok)
    IN  IF product = None THEN Answer(st, 404, "NotFound", "", "none", 0, None)
        ELSE IF r.raised # "none"
        THEN Answer(st1, 400, r.raised, r.arg, "none", 0, None)
        ELSE IF u.raised # "none"
        THEN Answer(u.st, 400, u.raised, u.arg, "none", 0, None)
        ELSE Answer(u.st, 200, u.raised, u.arg, Committed(commit_ok), 0, serialize(u.self))

\* mutant: the delete request removes every stored product
delete_products_every_row(st, product_id, commit_ok) ==
    LET product == find(st, product_id)
    IN  IF product = None THEN Answer(st, 204, "none", "", "none", 0, None)
        ELSE IF commit_ok
        THEN Answer(session_commit(st, NoRows, DOMAIN st.db), 204, "none", "",
                    Committed(commit_ok), 0, None)
        ELSE Answer(session_rollback(st), 204, "none", "", Committed(commit_ok), 0, None)

\* delete_products
delete_products(st, product_id, commit_ok) ==
    LET product == find(st, product_id)
        d == delete(product, st, commit_ok)
    IN  IF product = None THEN Answer(st, 204, "none", "", "none", 0, None)
        ELSE Answer(d.st, 204, d.raised, d.arg, Committed(commit_ok), 0, None)

\* get_products
get_products(st, product_id) ==
    LET product == find(st, product_id)
    IN  IF product = None THEN Answer(st, 404, "NotFound", "", "none", 0, None)
        ELSE Answer(st, 200, "none", "", "none", 0, serialize(product))

----------------------------------------------------------------------------
(* The service: requests in any order, and calls of create and update on   *)
(* objects built by the caller.                                            *)

CrudNames == {PyStr(<<"W">>), PyStr(<<"G">>)}

\* the columns of a product named n
Fields(n) == [name |-> n, description |-> PyStr(<<"d">>), category |-> PyStr(<<"c">>),
              price |-> PyFloat(1)]

\* request bodies: a valid one, one without category, one with a bad price,
\* for each name, and no body
CrudBodies ==
    {Dict(Fields(n)) : n \in CrudNames}
    \cup {Dict([k \in {"name", "description", "price"} |-> Fields(n)[k]]) : n \in CrudNames}
    \cup {Dict([Fields(n) EXCEPT !.price = PyStr(<<"x">>)]) : n \in CrudNames}
    \cup {None}

\* the ids the store can give a new row
FreshIds == (1..MaxId) \ DOMAIN db

\* the ids asked for in requests
RequestIds == 0..MaxId

Init ==
    /\ db = NoRows
    /\ sess = NoRows
    /\ refused = NoRefusal
    /\ obj = Product
    /\ last = NoCall

\* the record of a request or call
Done(op, id, a) ==
    [op |-> op, id |-> id, status |-> a.status, raised |-> a.raised, arg |-> a.arg,
     commit |-> a.commit, store_id |-> a.store_id, result |-> a.result]

CreateProducts ==
    \E data \in CrudBodies, commit_ok \in BOOLEAN, store_id \in FreshIds :
        LET a == create_products(Store, data, commit_ok, store_id)
        IN  /\ db' = a.st.db
            /\ sess' = a.st.sess
            /\ last' = Done("create_products", 0, a)
            /\ UNCHANGED <<refused, obj>>

UpdateProducts ==
    \E product_id \in RequestIds, data \in CrudBodies, commit_ok \in BOOLEAN :
        LET a == update_products(Store, product_id, data, commit_ok)
        IN  /\ db' = a.st.db
            /\ sess' = a.st.sess
            /\ last' = Done("update_products", product_id, a)
            /\ refused' = IF a.status = 400
                           THEN IF refused.id = product_id THEN refused
                                ELSE [id |-> product_id, row |-> db[product_id]]
                           ELSE IF a.status = 200 /\ refused.id = product_id
                           THEN NoRefusal
                           ELSE refused
            /\ UNCHANGED obj

DeleteProducts ==
    \E product_id \in RequestIds, commit_ok \in BOOLEAN :
        LET a == delete_products(Store, product_id, commit_ok)
        IN  /\ db' = a.st.db
            /\ sess' = a.st.sess
            /\ last' = Done("delete_products", product_id, a)
            /\ refused' = IF refused.id = product_id THEN NoRefusal ELSE refused
            /\ UNCHANGED obj

GetProducts ==
    \E product_id \in RequestIds :
        LET a == get_products(Store, product_id)
        IN  /\ last' = Done("get_products", product_id, a)
            /\ UNCHANGED <<db, sess, refused, obj>>

\* Product(id=..., name=..., ...).create(): create on an object whose id the
\* caller has set
ProductCreate ==
    \E id \in 1..MaxId, n \in CrudNames, commit_ok \in BOOLEAN, store_id \in FreshIds :
        LET self == Row(id, Fields(n))
            c == create(self, Store, commit_ok, store_id)
        IN  /\ db' = c.st.db
            /\ sess' = c.st.sess
            /\ last' = Done("create", id,
                            Answer(c.st, 0, c.raised, c.arg, Committed(commit_ok),
                                   IF commit_ok THEN store_id ELSE 0, serialize(c.self)))
            /\ UNCHANGED <<refused, obj>>

\* update on an object that is not stored: one built by the caller, with or
\* without an id
ProductUpdate ==
    \E id \in {None, PyInt(0), PyInt(1)}, n \in CrudNames, commit_ok \in BOOLEAN :
        LET self == [Row(0, Fields(n)) EXCEPT !.id = id]
            u == update(self, Store, commit_ok)
        IN  /\ db' = u.st.db
            /\ sess' = u.st.sess
            /\ last' = Done("update", 0,
                            Answer(u.st, 0, u.raised, u.arg,
                                   IF u.raised = "none" THEN Committed(commit_ok) ELSE "none",
                                   0, serialize(u.self)))
            /\ UNCHANGED <<refused, obj>>

Next ==
    \/ CreateProducts
    \/ UpdateProducts
    \/ DeleteProducts
    \/ GetProducts
    \/ ProductCreate
    \/ ProductUpdate

Spec == Init /\ [][Next]_vars

\* C7: update on a Product whose id is None or 0 raises DataValidationError
\* "Update called with empty ID field" and does not commit: the stored rows
\* are what they were before the call.
C7_UpdateWithoutIdCommitsNothing ==
    [][(last'.op = "update" /\ ~Truthy(last'.result.items["id"])) =>
          /\ last'.raised = "DataValidationError"
          /\ last'.arg = "Update called with empty ID field"
          /\ last'.commit = "none"
          /\ db' = db
          /\ sess' = sess]_vars

\* update was called on a Product with id 0 while the session held an
\* unflushed change, and raised
C7_Witness ==
    /\ last.op = "update"
    /\ last.result.items["id"] = PyInt(0)
    /\ last.raised = "DataValidationError"
    /\ sess # NoRows

\* C8: the stored products have pairwise distinct ids; a stored product and
\* its object in the session keep the id the row was stored under (update
\* overwrites the other columns only); and a row appears under a new id only
\* by a create, under the id the store gave it, whatever id the caller had set.
C8_IdsAssignedByStoreAndKept ==
    /\ [](/\ \A i, j \in DOMAIN db : db[i].id = db[j].id => i = j
          /\ \A i \in DOMAIN db : db[i].id = PyInt(i)
          /\ \A i \in DOMAIN sess : i \in DOMAIN db /\ sess[i].id = PyInt(i))
    /\ [][\A i \in DOMAIN db' \ DOMAIN db :
             /\ last'.op \in {"create", "create_products"}
             /\ last'.store_id = i
             /\ last'.result.items["id"] = PyInt(i)]_vars

\* create was called on a Product whose id the caller had set to 1, and the
\* row was stored under the id 2 that the store gave it, beside the row 1
C8_Witness ==
    /\ last.op = "create"
    /\ last.id = 1
    /\ last.store_id = 2
    /\ DOMAIN db = {1, 2}
    /\ db[2].id = PyInt(2)

PersistenceOps == {"create", "create_products", "update", "update_products", "delete_products"}

C10_RefusedUpdateLeavesProductUnchanged ==
    refused.id # 0 =>
        /\ refused.id \in DOMAIN db
        /\ db[refused.id] = refused.row
        /\ (last.op = "get_products" /\ last.id = refused.id) =>
              last.result = serialize(refused.row)

C11_WitnessNotStored ==
    /\ last.op = "delete_products"
    /\ last.id \notin DOMAIN db
    /\ last.commit = "none"
    /\ last.status = 204
    /\ db # NoRows

====
